---------------------------- MODULE Spec2Model ----------------------------
(***************************************************************************)
(* Model of the NFT smart assistant backend: the Flask routes of           *)
(* backend/app.py, the UnleashNFTsAPI gateway they call, and the           *)
(* NFTRiskEngine of backend/risk_engine.py.                                *)
(*                                                                         *)
(* Every request is served to completion before the next one starts, so    *)
(* one action is one whole request handler (or one whole call of a public  *)
(* method of the gateway or of the engine).  The state holds the module    *)
(* level tables, the last request, and everything that request produced:   *)
(* the HTTP response, the upstream GETs issued, the engine operations      *)
(* called, the value the callee returned and the lines logged.             *)
(*                                                                         *)
(* Numbers.  Python floats are modelled in fixed point:                    *)
(*   random draws             in hundredths      (1.0 = 100)               *)
(*   sub-scores of analyses   in thousandths     (1.0 = 1000)              *)
(*   weighted terms and sums  in 1e-5            (1.0 = 100000)            *)
(*   values after round(x, 3) in thousandths     (1.0 = 1000)              *)
(***************************************************************************)
EXTENDS Integers, Sequences, FiniteSets, TLC

VARIABLES
    CHAIN_ID_MAP,      \* app.py: chain name -> upstream chain id
    SUPPORTED_CHAINS,  \* app.py: the allow-list of chain names
    headers,           \* unleash_client.headers
    risk_thresholds,   \* risk_engine.risk_thresholds
    fraud_patterns,    \* risk_engine.fraud_patterns
    request,           \* the request (or direct call) served last
    response,          \* the HTTP response it got
    ret,               \* what the gateway / engine returned to its caller
    upstream_calls,    \* the upstream GETs issued while serving it, in order
    engine_calls,      \* the risk-engine operations called while serving it
    logged             \* the logger.error lines written while serving it

vars == <<CHAIN_ID_MAP, SUPPORTED_CHAINS, headers, risk_thresholds,
          fraud_patterns, request, response, ret, upstream_calls,
          engine_calls, logged>>

tables == <<CHAIN_ID_MAP, SUPPORTED_CHAINS, headers, risk_thresholds,
            fraud_patterns>>

Range(s) == {s[i] : i \in DOMAIN s}

(***************************************************************************)
(* Bounds of the model.                                                    *)
(***************************************************************************)
\* longest metrics list sent to /api/market/multiple-metrics
MaxMetrics == 2

(***************************************************************************)
(* Inputs the environment chooses.                                         *)
(***************************************************************************)
\* chain path parameters: the six names of the allow-list, and others
ChainInputs == {"ethereum", "polygon", "bsc", "avalanche", "linea", "solana",
                "foo", "Ethereum"}

AddressInputs == {"0xabc", "0xdef"}

MetricInputs == {"volume", "sales"}

TimeRangeInputs == {"24h", "7d"}

\* What one upstream GET can end in: a 2xx response with a JSON body, a 2xx
\* response whose body is no JSON, a non-2xx response, a network failure.
\* "cause" is the text of the exception the gateway catches (empty when none
\* is raised).
UpstreamOutcomes ==
    { [kind |-> "ok", json |-> "{data}", cause |-> ""],
      [kind |-> "ok", json |-> "{}", cause |-> ""],
      [kind |-> "ok", json |-> "null", cause |-> ""],
      [kind |-> "bad_json", json |-> "", cause |-> "JSONDecodeError"],
      [kind |-> "non_2xx", json |-> "", cause |-> "HTTPError: 500 Server Error"],
      [kind |-> "network", json |-> "", cause |-> "ConnectionError"] }

(***************************************************************************)
(* Python values.                                                          *)
(***************************************************************************)
None == [kind |-> "None"]

Json(v) == [kind |-> "json", value |-> v]

Dict(d) == [kind |-> "dict", value |-> d]

NoCall == [kind |-> "not called"]

NoResponse == [status |-> 0, body |-> <<>>]

\* response.json(): JSON null decodes to None
ResponseJson(text) == IF text = "null" THEN None ELSE Json(text)

\* Python truth value of a decoded JSON body or of a dict
Truthy(v) ==
    CASE v.kind = "None" -> FALSE
      [] v.kind = "json" -> v.value \notin {"{}", "[]", "0", "false", "\"\""}
      [] v.kind = "dict" -> DOMAIN v.value # {}
      [] OTHER -> TRUE

Timestamp == "datetime.now().isoformat()"

(***************************************************************************)
(* UnleashNFTsAPI.  Each method is an operator from its arguments and the  *)
(* outcome(s) of its upstream GET(s) to what it returns, issues and logs.  *)
(***************************************************************************)
ChainIdMutant(chain) == 1

ChainId(chain) ==
    IF chain \in DOMAIN CHAIN_ID_MAP THEN CHAIN_ID_MAP[chain] ELSE 1

\* requests.get + raise_for_status + json inside try/except Exception
GatewayReturnMutant(outcome) ==
    IF outcome.kind = "ok" THEN ResponseJson(outcome.json)
    ELSE Json(outcome.cause)

GatewayReturn(outcome) ==
    IF outcome.kind = "ok" THEN ResponseJson(outcome.json) ELSE None

GatewayLog(what, outcome) ==
    IF outcome.kind = "ok" THEN <<>>
    ELSE << "Error getting " \o what \o ": " \o outcome.cause >>

Api_get_market_metrics(chain, metrics, time_range, currency, outcome) ==
    [ calls |-> << [ url |-> "/market/metrics",
                     headers |-> headers,
                     currency |-> currency,
                     blockchain |-> ChainId(chain),
                     metrics |-> metrics,
                     time_range |-> time_range,
                     include_washtrade |-> "true",
                     reply |-> outcome ] >>,
      result |-> GatewayReturn(outcome),
      log |-> GatewayLog("market metrics", outcome) ]

Api_get_washtrade_metrics(chain, time_range, currency, outcome) ==
    [ calls |-> << [ url |-> "/market/metrics",
                     headers |-> headers,
                     currency |-> currency,
                     blockchain |-> ChainId(chain),
                     metrics |-> "washtrade_volume",
                     time_range |-> time_range,
                     include_washtrade |-> "true",
                     reply |-> outcome ] >>,
      result |-> GatewayReturn(outcome),
      log |-> GatewayLog("washtrade metrics", outcome) ]

Api_get_blockchains(sort_by, offset, limit, outcome) ==
    [ calls |-> << [ url |-> "/blockchains",
                     headers |-> headers,
                     sort_by |-> sort_by,
                     offset |-> offset,
                     limit |-> limit,
                     reply |-> outcome ] >>,
      result |-> GatewayReturn(outcome),
      log |-> GatewayLog("blockchains", outcome) ]

\* "if result:" of the loop of get_multiple_metrics
KeepMetric(result) == Truthy(result)

RECURSIVE MultiLoopMutant(_, _, _, _, _, _)
MultiLoopMutant(chain, metrics_list, time_range, currency, outcomes, n) ==
    IF n = 0 THEN [calls |-> <<>>, results |-> <<>>, log |-> <<>>]
    ELSE LET before == MultiLoopMutant(chain, metrics_list, time_range,
                                       currency, outcomes, n - 1)
             one == Api_get_market_metrics(chain, metrics_list[n], time_range,
                                           currency, outcomes[n])
         IN  IF before.log # <<>> THEN before
             ELSE [ calls |-> before.calls \o one.calls,
                    results |-> IF KeepMetric(one.result)
                                THEN before.results \o
                                     << <<metrics_list[n], one.result>> >>
                                ELSE before.results,
                    log |-> before.log \o one.log ]

\* The loop of get_multiple_metrics over metrics_list[1..n], outcomes[i]
\* being the outcome of the GET for entry i.  results is the dict built so
\* far (a later entry of the same name overwrites the earlier one).
RECURSIVE MultiLoop(_, _, _, _, _, _)
MultiLoop(chain, metrics_list, time_range, currency, outcomes, n) ==
    IF n = 0 THEN [calls |-> <<>>, results |-> <<>>, log |-> <<>>]
    ELSE LET before == MultiLoop(chain, metrics_list, time_range, currency,
                                 outcomes, n - 1)
             one == Api_get_market_metrics(chain, metrics_list[n], time_range,
                                           currency, outcomes[n])
         IN  [ calls |-> before.calls \o one.calls,
               results |-> IF KeepMetric(one.result)
                           THEN before.results \o
                                << <<metrics_list[n], one.result>> >>
                           ELSE before.results,
               log |-> before.log \o one.log ]

\* the dict a list of (key, value) assignments leaves
DictOf(pairs) ==
    [ k \in {pairs[i][1] : i \in DOMAIN pairs} |->
        LET last == CHOOSE i \in DOMAIN pairs :
                        /\ pairs[i][1] = k
                        /\ \A j \in DOMAIN pairs : pairs[j][1] = k => j <= i
        IN  pairs[last][2] ]

Api_get_multiple_metrics(chain, metrics_list, time_range, currency, outcomes) ==
    LET loop == MultiLoop(chain, metrics_list, time_range, currency, outcomes,
                          Len(metrics_list))
        results == DictOf(loop.results)
    IN  [ calls |-> loop.calls,
          result |-> IF Truthy(Dict(results))
                     THEN Dict([metric_values |-> results])
                     ELSE None,
          log |-> loop.log ]

(***************************************************************************)
(* Initial state: the module has been imported, no request served yet.     *)
(***************************************************************************)
Init ==
    /\ CHAIN_ID_MAP = [ ethereum |-> 1, polygon |-> 137, bsc |-> 57,
                        avalanche |-> 43114, linea |-> 59144, solana |-> 900 ]
    /\ SUPPORTED_CHAINS = << "ethereum", "polygon", "bsc", "avalanche",
                             "linea", "solana" >>
    /\ headers = [ x_api_key |-> "UNLEASH_API_KEY",
                   accept |-> "application/json" ]
    /\ risk_thresholds = [ low |-> 30000, medium |-> 60000, high |-> 80000 ]
    /\ fraud_patterns =
         [ wash_trading |-> [ volume_spike_threshold |-> 500,
                              repetitive_trading_threshold |-> 70,
                              price_manipulation_threshold |-> 80 ],
           fake_collections |-> [ metadata_similarity_threshold |-> 90,
                                  rapid_minting_threshold |-> 100,
                                  suspicious_traits_threshold |-> 80 ],
           rug_pulls |-> [ creator_activity_threshold |-> 20,
                           liquidity_drain_threshold |-> 80,
                           social_signals_threshold |-> 30 ] ]
    /\ request = [route |-> "none"]
    /\ response = NoResponse
    /\ ret = NoCall
    /\ upstream_calls = <<>>
    /\ engine_calls = <<>>
    /\ logged = <<>>

(***************************************************************************)
(* Routes of app.py.                                                       *)
(***************************************************************************)
\* "if chain not in SUPPORTED_CHAINS"
ChainSupportedMutant(chain) ==
    chain \in Range(SUPPORTED_CHAINS) \/ chain = "Ethereum"

ChainSupported(chain) == chain \in Range(SUPPORTED_CHAINS)

Respond(status, body) == [status |-> status, body |-> body]

UnsupportedChain(chain) ==
    Respond(400, [error |-> "Unsupported chain: " \o chain])

Idle == request.route = "none"

\* the request never reaches the gateway or the engine
Rejected(req, resp) ==
    /\ request' = req
    /\ response' = resp
    /\ ret' = NoCall
    /\ upstream_calls' = <<>>
    /\ engine_calls' = <<>>
    /\ logged' = <<>>
    /\ UNCHANGED tables

ProxiedMutant(req, out, resp) ==
    /\ request' = req
    /\ response' = resp
    /\ ret' = out.result
    /\ upstream_calls' = out.calls
    /\ engine_calls' = <<>>
    /\ logged' = out.log
    /\ headers' = [headers EXCEPT !.accept = "*/*"]
    /\ UNCHANGED <<CHAIN_ID_MAP, SUPPORTED_CHAINS, risk_thresholds,
                   fraud_patterns>>

\* the request is answered from what a gateway method returned
Proxied(req, out, resp) ==
    /\ request' = req
    /\ response' = resp
    /\ ret' = out.result
    /\ upstream_calls' = out.calls
    /\ engine_calls' = <<>>
    /\ logged' = out.log
    /\ UNCHANGED tables

health_check ==
    /\ Idle
    /\ Rejected([route |-> "/api/health"],
             Respond(200, [ status |-> "healthy",
                            timestamp |-> Timestamp,
                            supported_chains |-> SUPPORTED_CHAINS ]))

get_supported_chains ==
    /\ Idle
    /\ Rejected([route |-> "/api/chains"],
             Respond(200, [ supported_chains |-> SUPPORTED_CHAINS,
                            default_chain |-> "ethereum" ]))

get_market_metrics ==
    /\ Idle
    /\ \E chain \in ChainInputs, metrics \in MetricInputs,
       time_range \in TimeRangeInputs, outcome \in UpstreamOutcomes :
        LET currency == "usd"
            req == [ route |-> "/api/market/metrics/<chain>", chain |-> chain,
                     metrics |-> metrics, time_range |-> time_range,
                     currency |-> currency ]
            out == Api_get_market_metrics(chain, metrics, time_range,
                                          currency, outcome)
        IN  IF ~ChainSupported(chain)
            THEN Rejected(req, UnsupportedChain(chain))
            ELSE Proxied(req, out,
                   IF out.result = None
                   THEN Respond(500, [error |-> "Failed to get market metrics"])
                   ELSE Respond(200, [ chain |-> chain,
                                       metrics |-> metrics,
                                       time_range |-> time_range,
                                       currency |-> currency,
                                       data |-> out.result,
                                       timestamp |-> Timestamp ]))

\* int(request.args.get(...)): the decimal strings the requests carry
ParseInt(text) ==
    CASE text = "0" -> [ok |-> TRUE, value |-> 0]
      [] text = "5" -> [ok |-> TRUE, value |-> 5]
      [] text = "30" -> [ok |-> TRUE, value |-> 30]
      [] OTHER -> [ok |-> FALSE, value |-> 0]

OffsetInputs == {"0", "5", "abc"}

LimitInputs == {"30", "ten"}

\* an exception no handler catches: Flask answers 500 with its own page
Unhandled == Respond(500, [html |-> "Internal Server Error"])

get_blockchains ==
    /\ Idle
    /\ \E offset_arg \in OffsetInputs, limit_arg \in LimitInputs,
       outcome \in UpstreamOutcomes :
        LET sort_by == "blockchain_name"
            offset == ParseInt(offset_arg)
            limit == ParseInt(limit_arg)
            req == [ route |-> "/api/blockchains", sort_by |-> sort_by,
                     offset |-> offset_arg, limit |-> limit_arg ]
            out == Api_get_blockchains(sort_by, offset.value, limit.value,
                                       outcome)
        IN  IF ~offset.ok \/ ~limit.ok
            THEN Rejected(req, Unhandled)
            ELSE Proxied(req, out,
                   IF out.result = None
                   THEN Respond(500, [error |-> "Failed to get blockchains"])
                   ELSE Respond(200, [ sort_by |-> sort_by,
                                       offset |-> offset.value,
                                       limit |-> limit.value,
                                       data |-> out.result,
                                       timestamp |-> Timestamp ]))

\* the pieces metrics_param.split(',') yields, before strip()
RawMetricInputs == {"volume", " sales", ""}

\* m.strip()
Strip(text) == IF text = " sales" THEN "sales" ELSE text

MetricsParams ==
    UNION { [1..n -> RawMetricInputs] : n \in 1..MaxMetrics }

get_multiple_metrics ==
    /\ Idle
    /\ \E chain \in ChainInputs, pieces \in MetricsParams,
       time_range \in TimeRangeInputs :
      \E outcomes \in [DOMAIN pieces -> UpstreamOutcomes] :
        LET currency == "usd"
            metrics_list == [i \in DOMAIN pieces |-> Strip(pieces[i])]
            req == [ route |-> "/api/market/multiple-metrics/<chain>",
                     chain |-> chain, metrics |-> pieces,
                     time_range |-> time_range, currency |-> currency ]
            out == Api_get_multiple_metrics(chain, metrics_list, time_range,
                                            currency, outcomes)
        IN  IF ~ChainSupported(chain)
            THEN Rejected(req, UnsupportedChain(chain))
            ELSE Proxied(req, out,
                   IF out.result = None
                   THEN Respond(500,
                                [error |-> "Failed to get multiple metrics"])
                   ELSE Respond(200, [ chain |-> chain,
                                       metrics |-> metrics_list,
                                       time_range |-> time_range,
                                       currency |-> currency,
                                       data |-> out.result,
                                       timestamp |-> Timestamp ]))

get_washtrade_metrics ==
    /\ Idle
    /\ \E chain \in ChainInputs, time_range \in TimeRangeInputs,
       outcome \in UpstreamOutcomes :
        LET currency == "usd"
            req == [ route |-> "/api/market/washtrade/<chain>",
                     chain |-> chain, time_range |-> time_range,
                     currency |-> currency ]
            out == Api_get_washtrade_metrics(chain, time_range, currency,
                                             outcome)
        IN  IF ~ChainSupported(chain)
            THEN Rejected(req, UnsupportedChain(chain))
            ELSE Proxied(req, out,
                   IF out.result = None
                   THEN Respond(500,
                                [error |-> "Failed to get washtrade metrics"])
                   ELSE Respond(200, [ chain |-> chain,
                                       metric |-> "washtrade_volume",
                                       time_range |-> time_range,
                                       currency |-> currency,
                                       data |-> out.result,
                                       timestamp |-> Timestamp ]))

(***************************************************************************)
(* NFTRiskEngine.  The random module is the environment: every draw is an  *)
(* input, taken from sample points of its range.                           *)
(***************************************************************************)
\* sample points per range: lo, hi and DrawSteps - 1 points between them
DrawSteps == 2

Sample(lo, hi, i) == lo + (i * (hi - lo)) \div DrawSteps

Samples(lo, hi) == {Sample(lo, hi, i) : i \in 0..DrawSteps}

Min(a, b) == IF a < b THEN a ELSE b

Max(a, b) == IF a > b THEN a ELSE b

\* round(x, 3) of x in 1e-5, in thousandths.  A decimal tie is no tie of the
\* binary float, which lies just above or just below it: tie_up says where.
Round3(x, tie_up) ==
    LET q == x \div 100
        r == x % 100
    IN  IF r > 50 \/ (r = 50 /\ tie_up) THEN q + 1 ELSE q

\* the draws of the four sub-analyses: random.uniform and random.randint
ScoreDraws ==
    [ volume_volatility : Samples(10, 200),
      unusual_spikes : 0..5,
      repetitive_trades : Samples(0, 100),
      bot_activity : Samples(0, 100),
      similarity_score : Samples(0, 100),
      missing_data : Samples(0, 50),
      engagement_score : Samples(0, 100),
      sentiment_score : Samples(-100, 100) ]

\* the draws in which every value sits at the same point of its range
ScoreDrawsAt(i) ==
    [ volume_volatility |-> Sample(10, 200, i),
      unusual_spikes |-> Sample(0, 5, i),
      repetitive_trades |-> Sample(0, 100, i),
      bot_activity |-> Sample(0, 100, i),
      similarity_score |-> Sample(0, 100, i),
      missing_data |-> Sample(0, 50, i),
      engagement_score |-> Sample(0, 100, i),
      sentiment_score |-> Sample(-100, 100, i) ]

WashDraws ==
    [ volume_spike : Samples(10, 1000),
      repetitive_patterns : Samples(0, 100),
      price_manipulation : Samples(0, 100) ]

WashDrawsAt(i) ==
    [ volume_spike |-> Sample(10, 1000, i),
      repetitive_patterns |-> Sample(0, 100, i),
      price_manipulation |-> Sample(0, 100, i) ]

FakeDraws ==
    [ metadata_similarity : Samples(0, 100),
      rapid_minting : Samples(1, 200),
      suspicious_traits : Samples(0, 100) ]

FakeDrawsAt(i) ==
    [ metadata_similarity |-> Sample(0, 100, i),
      rapid_minting |-> Sample(1, 200, i),
      suspicious_traits |-> Sample(0, 100, i) ]

RugDraws ==
    [ creator_activity : Samples(0, 100),
      liquidity_drain : Samples(0, 100),
      social_signals : Samples(0, 100) ]

RugDrawsAt(i) ==
    [ creator_activity |-> Sample(0, 100, i),
      liquidity_drain |-> Sample(0, 100, i),
      social_signals |-> Sample(0, 100, i) ]

_analyze_volume_patternsMutant(d) ==
    [ risk_score |-> d.volume_volatility * 3 + d.unusual_spikes * 100,
      volume_volatility |-> d.volume_volatility,
      unusual_spikes |-> d.unusual_spikes,
      pattern_analysis |-> IF d.volume_volatility > 100
                           THEN "Moderate volatility detected"
                           ELSE "Normal patterns" ]

_analyze_volume_patterns(d) ==
    [ risk_score |-> Min(d.volume_volatility * 3 + d.unusual_spikes * 100,
                         1000),
      volume_volatility |-> d.volume_volatility,
      unusual_spikes |-> d.unusual_spikes,
      pattern_analysis |-> IF d.volume_volatility > 100
                           THEN "Moderate volatility detected"
                           ELSE "Normal patterns" ]

_analyze_trading_behaviorMutant(d) ==
    [ risk_score |-> d.repetitive_trades * 60 + d.bot_activity * 40,
      repetitive_trades |-> d.repetitive_trades,
      bot_activity_score |-> d.bot_activity,
      behavior_analysis |-> IF d.repetitive_trades > 70
                            THEN "Suspicious patterns detected"
                            ELSE "Normal behavior" ]

_analyze_trading_behavior(d) ==
    [ risk_score |-> d.repetitive_trades * 6 + d.bot_activity * 4,
      repetitive_trades |-> d.repetitive_trades,
      bot_activity_score |-> d.bot_activity,
      behavior_analysis |-> IF d.repetitive_trades > 70
                            THEN "Suspicious patterns detected"
                            ELSE "Normal behavior" ]

_analyze_metadata_integrity(d) ==
    [ risk_score |-> d.similarity_score * 7 + d.missing_data * 3,
      similarity_score |-> d.similarity_score,
      missing_data_ratio |-> d.missing_data,
      integrity_analysis |-> IF d.similarity_score > 80
                             THEN "High similarity detected"
                             ELSE "Metadata appears unique" ]

_analyze_social_signals(d) ==
    [ risk_score |-> Max(0, (100 - d.engagement_score) * 6
                            + Max(0, -d.sentiment_score) * 4),
      engagement_score |-> d.engagement_score,
      sentiment_score |-> d.sentiment_score,
      social_analysis |-> IF d.engagement_score > 70
                          THEN "Strong community"
                          ELSE "Weak social presence" ]

\* score in 1e-5
_get_risk_levelMutant(score) ==
    IF score <= risk_thresholds.low THEN "LOW"
    ELSE IF score <= risk_thresholds.medium THEN "MEDIUM"
    ELSE IF score <= risk_thresholds.high THEN "HIGH"
    ELSE "CRITICAL"

_get_risk_level(score) ==
    IF score < risk_thresholds.low THEN "LOW"
    ELSE IF score < risk_thresholds.medium THEN "MEDIUM"
    ELSE IF score < risk_thresholds.high THEN "HIGH"
    ELSE "CRITICAL"

\* components.get(name, 0)
Get(components, name) ==
    IF name \in DOMAIN components THEN components[name] ELSE 0

\* risk_score and the components in 1e-5; the lines are kept without the
\* pictograph each one starts with
_generate_recommendations(risk_score, components) ==
    ( IF risk_score > 70000
      THEN << "HIGH RISK: Avoid investment until further investigation",
              "Conduct thorough due diligence on project team" >>
      ELSE IF risk_score > 50000
      THEN << "MEDIUM RISK: Proceed with caution",
              "Monitor trading patterns closely" >>
      ELSE << "LOW RISK: Appears relatively safe",
              "Continue monitoring for any changes" >> )
    \o ( IF Get(components, "volume_risk") > 60000
         THEN << "Volume patterns show irregularities" >> ELSE <<>> )
    \o ( IF Get(components, "trading_risk") > 60000
         THEN << "Potential bot activity detected" >> ELSE <<>> )
    \o ( IF Get(components, "metadata_risk") > 60000
         THEN << "Metadata integrity concerns" >> ELSE <<>> )
    \o ( IF Get(components, "social_risk") > 60000
         THEN << "Weak community engagement" >> ELSE <<>> )

DefaultAssessmentMutant ==
    [ overall_risk_score |-> 0,
      risk_level |-> "LOW",
      risk_components |-> <<>>,
      detailed_analysis |-> <<>>,
      recommendations |->
          << "Unable to complete analysis - manual review recommended" >>,
      timestamp |-> Timestamp ]

_get_default_risk_assessment ==
    [ overall_risk_score |-> 500,
      risk_level |-> "MEDIUM",
      risk_components |-> <<>>,
      detailed_analysis |-> <<>>,
      recommendations |->
          << "Unable to complete analysis - manual review recommended" >>,
      timestamp |-> Timestamp ]

\* the weighted terms, in 1e-5, of sub-scores in thousandths
RiskComponentsMutant(volume, trading, metadata, social) ==
    [ volume_risk |-> volume.risk_score * 30,
      trading_risk |-> trading.risk_score * 25,
      metadata_risk |-> metadata.risk_score * 20,
      social_risk |-> social.risk_score * 25 ]

RiskComponents(volume, trading, metadata, social) ==
    [ volume_risk |-> volume.risk_score * 30,
      trading_risk |-> trading.risk_score * 25,
      metadata_risk |-> metadata.risk_score * 25,
      social_risk |-> social.risk_score * 20 ]

\* What an engine operation hands back: the value returned, or the
\* exception that leaves it, and the lines it logged.
Returned(value, log) == [raised |-> FALSE, value |-> value, log |-> log]

Raised(log) == [raised |-> TRUE, value |-> <<>>, log |-> log]

calculate_risk_scoreMutant(nft_data, d, fails, tie_up) ==
    Returned([_get_default_risk_assessment
                  EXCEPT !.detailed_analysis = nft_data],
             <<>>)

\* fails: an exception is raised somewhere inside the try block
calculate_risk_score(nft_data, d, fails, tie_up) ==
    IF fails
    THEN Returned(_get_default_risk_assessment,
                  << "Error calculating risk score: Exception" >>)
    ELSE
    LET volume_metrics == _analyze_volume_patterns(d)
        trading_metrics == _analyze_trading_behavior(d)
        metadata_metrics == _analyze_metadata_integrity(d)
        social_metrics == _analyze_social_signals(d)
        risk_components == RiskComponents(volume_metrics, trading_metrics,
                                          metadata_metrics, social_metrics)
        total_risk_score == risk_components.volume_risk
                            + risk_components.trading_risk
                            + risk_components.metadata_risk
                            + risk_components.social_risk
        risk_level == _get_risk_level(total_risk_score)
    IN  Returned(
          [ overall_risk_score |-> Round3(total_risk_score, tie_up),
            risk_level |-> risk_level,
            risk_components |-> risk_components,
            detailed_analysis |->
                [ volume_analysis |-> volume_metrics,
                  trading_analysis |-> trading_metrics,
                  metadata_analysis |-> metadata_metrics,
                  social_analysis |-> social_metrics ],
            recommendations |->
                _generate_recommendations(total_risk_score, risk_components),
            timestamp |-> Timestamp ],
          <<>>)

_get_wash_trading_risk_factorsMutant(volume_spike, repetitive, manipulation) ==
    ( IF volume_spike > 500
      THEN << "Unusual volume spikes detected" >> ELSE <<>> )
    \o ( IF repetitive > 40 THEN << "Repetitive trading patterns" >> ELSE <<>> )
    \o ( IF manipulation > 80
         THEN << "Potential price manipulation" >> ELSE <<>> )

_get_wash_trading_risk_factors(volume_spike, repetitive, manipulation) ==
    ( IF volume_spike > 500
      THEN << "Unusual volume spikes detected" >> ELSE <<>> )
    \o ( IF repetitive > 70 THEN << "Repetitive trading patterns" >> ELSE <<>> )
    \o ( IF manipulation > 80
         THEN << "Potential price manipulation" >> ELSE <<>> )

_get_fake_collection_risk_factors(similarity, minting, traits) ==
    ( IF similarity > 90 THEN << "High metadata similarity" >> ELSE <<>> )
    \o ( IF minting > 100 THEN << "Rapid minting activity" >> ELSE <<>> )
    \o ( IF traits > 80 THEN << "Suspicious trait distribution" >> ELSE <<>> )

_get_rug_pull_risk_factors(activity, liquidity, social) ==
    ( IF activity < 20 THEN << "Low creator activity" >> ELSE <<>> )
    \o ( IF liquidity > 80 THEN << "Liquidity concerns" >> ELSE <<>> )
    \o ( IF social < 30 THEN << "Weak social signals" >> ELSE <<>> )

\* what the except branch of each detector returns
WashFallback ==
    [is_wash_trading |-> FALSE, wash_trading_score |-> 0, confidence |-> 0]

FakeFallback ==
    [is_fake_collection |-> FALSE, fake_score |-> 0, confidence |-> 0]

RugFallback ==
    [ is_high_rug_pull_risk |-> FALSE, rug_pull_risk_score |-> 0,
      confidence |-> 0 ]

\* "score > 0.6", "score > 0.7": score and threshold in 1e-5
FlaggedMutant(score, threshold) == score > 60000

Flagged(score, threshold) == score > threshold

\* "min(score * 1.2, 1.0)": score in 1e-5, the factor in tenths
ConfidenceMutant(score, tenths) == (score * tenths) \div 10

Confidence(score, tenths) == Min((score * tenths) \div 10, 100000)

\* scores and confidence in 1e-5 before round(x, 3)
detect_wash_trading(trading_data, d, fails, tie_up) ==
    IF fails
    THEN Returned(WashFallback, << "Error detecting wash trading: Exception" >>)
    ELSE
    LET p == fraud_patterns.wash_trading
        wash_trading_score ==
            (Min((d.volume_spike * 100000) \div p.volume_spike_threshold,
                 100000) * 40) \div 100
            + d.repetitive_patterns * 350
            + d.price_manipulation * 250
        is_wash_trading == Flagged(wash_trading_score, 60000)
        confidence == Confidence(wash_trading_score, 12)
    IN  Returned(
          [ is_wash_trading |-> is_wash_trading,
            wash_trading_score |-> Round3(wash_trading_score, tie_up),
            confidence |-> Round3(confidence, tie_up),
            indicators |->
              [ volume_spike |-> d.volume_spike > p.volume_spike_threshold,
                repetitive_patterns |->
                    d.repetitive_patterns > p.repetitive_trading_threshold,
                price_manipulation |->
                    d.price_manipulation > p.price_manipulation_threshold ],
            risk_factors |->
                _get_wash_trading_risk_factors(d.volume_spike,
                    d.repetitive_patterns, d.price_manipulation) ],
          <<>>)

detect_fake_collections(collection_data, d, fails, tie_up) ==
    IF fails
    THEN Returned(FakeFallback,
                  << "Error detecting fake collections: Exception" >>)
    ELSE
    LET p == fraud_patterns.fake_collections
        fake_score ==
            d.metadata_similarity * 400
            + (Min((d.rapid_minting * 100000) \div p.rapid_minting_threshold,
                   100000) * 30) \div 100
            + d.suspicious_traits * 300
        is_fake == Flagged(fake_score, 70000)
        confidence == Confidence(fake_score, 11)
    IN  Returned(
          [ is_fake_collection |-> is_fake,
            fake_score |-> Round3(fake_score, tie_up),
            confidence |-> Round3(confidence, tie_up),
            indicators |->
              [ high_metadata_similarity |->
                    d.metadata_similarity > p.metadata_similarity_threshold,
                rapid_minting |-> d.rapid_minting > p.rapid_minting_threshold,
                suspicious_traits |->
                    d.suspicious_traits > p.suspicious_traits_threshold ],
            risk_factors |->
                _get_fake_collection_risk_factors(d.metadata_similarity,
                    d.rapid_minting, d.suspicious_traits) ],
          <<>>)

predict_rug_pull_risk(project_data, d, fails, tie_up) ==
    IF fails
    THEN Returned(RugFallback,
                  << "Error predicting rug pull risk: Exception" >>)
    ELSE
    LET p == fraud_patterns.rug_pulls
        rug_pull_risk == (100 - d.creator_activity) * 400
                         + d.liquidity_drain * 350
                         + (100 - d.social_signals) * 250
        is_high_risk == Flagged(rug_pull_risk, 60000)
        confidence == Confidence(rug_pull_risk, 13)
    IN  Returned(
          [ is_high_rug_pull_risk |-> is_high_risk,
            rug_pull_risk_score |-> Round3(rug_pull_risk, tie_up),
            confidence |-> Round3(confidence, tie_up),
            indicators |->
              [ low_creator_activity |->
                    d.creator_activity < p.creator_activity_threshold,
                liquidity_concerns |->
                    d.liquidity_drain > p.liquidity_drain_threshold,
                weak_social_signals |->
                    d.social_signals < p.social_signals_threshold ],
            risk_factors |->
                _get_rug_pull_risk_factors(d.creator_activity,
                    d.liquidity_drain, d.social_signals) ],
          <<>>)

\* The values drawn here are never read by any analysis: they are kept as
\* the expressions that draw them.
_generate_mock_data(address, chain) ==
    [ address |-> address,
      chain |-> chain,
      volume_24h |-> "random.uniform(1000, 100000)",
      trades_24h |-> "random.randint(10, 1000)",
      unique_traders |-> "random.randint(5, 500)",
      price_change_24h |-> "random.uniform(-50, 50)",
      metadata_hash |-> "0x<random>",
      creation_date |-> "<random date>" ]

_generate_risk_map_data(address, chain) ==
    [ risk_heatmap |->
        [ high_risk_addresses |-> "1..5 random addresses",
          medium_risk_addresses |-> "2..8 random addresses",
          low_risk_addresses |-> "5..15 random addresses" ],
      network_analysis |->
        [ connected_addresses |-> "random.randint(10, 100)",
          suspicious_connections |-> "random.randint(0, 5)",
          cluster_risk_score |-> "random.uniform(0.0, 1.0)" ],
      temporal_patterns |->
        [ risk_trend |-> "increasing or decreasing",
          pattern_strength |-> "random.uniform(0.0, 1.0)" ] ]

\* d.get(key, False) of a detector result
Flag(d, key) == IF key \in DOMAIN d THEN d[key] ELSE FALSE

\* the summary text, as its lines; the first line keeps the level and the
\* score that are formatted into it
_generate_executive_summary(risk_assessment, wash_trading, fake_collections, rug_pull) ==
    LET risk_level == risk_assessment.risk_level
    IN  << << "Risk Assessment Summary", risk_level,
              risk_assessment.overall_risk_score >> >>
        \o ( IF Flag(wash_trading, "is_wash_trading")
             THEN << "Wash trading patterns detected" >> ELSE <<>> )
        \o ( IF Flag(fake_collections, "is_fake_collection")
             THEN << "Potential fake collection identified" >> ELSE <<>> )
        \o ( IF Flag(rug_pull, "is_high_rug_pull_risk")
             THEN << "High rug pull risk detected" >> ELSE <<>> )
        \o ( IF risk_level = "LOW"
             THEN << "This asset appears to have low risk factors." >>
             ELSE IF risk_level = "MEDIUM"
             THEN << "This asset has moderate risk factors that require attention." >>
             ELSE << "This asset has significant risk factors and should be approached with extreme caution." >> )

_get_default_risk_report(address, chain) ==
    [ address |-> address,
      chain |-> chain,
      analysis_type |-> "error",
      overall_assessment |-> _get_default_risk_assessment,
      fraud_detection |-> <<>>,
      risk_visualization |-> <<>>,
      executive_summary |->
          << "Analysis could not be completed due to technical issues." >>,
      generated_at |-> Timestamp ]

\* the draws of one report: those of the score and of the three detectors
ReportDrawsAt(i, j) ==
    [score |-> ScoreDrawsAt(i), wash |-> WashDrawsAt(j),
     fake |-> FakeDrawsAt(j), rug |-> RugDrawsAt(i)]

ReportDraws == {ReportDrawsAt(i, j) : i, j \in 0..DrawSteps}

\* where an exception is raised while a report is generated: nowhere, inside
\* one of the four operations it calls, or in generate_risk_report's own code
ReportFaults == {"none", "score", "wash", "fake", "rug", "report"}

ReportExceptMutant(address, chain) ==
    Raised(<< "Error generating risk report: Exception" >>)

ReportExcept(address, chain) ==
    Returned(_get_default_risk_report(address, chain),
             << "Error generating risk report: Exception" >>)

generate_risk_report(address, chain, analysis_type, d, fault, tie_up) ==
    IF fault = "report"
    THEN ReportExcept(address, chain)
    ELSE
    LET mock_data == _generate_mock_data(address, chain)
        risk_assessment ==
            calculate_risk_score(mock_data, d.score, fault = "score", tie_up)
        wash_trading_analysis ==
            detect_wash_trading(mock_data, d.wash, fault = "wash", tie_up)
        fake_collection_analysis ==
            detect_fake_collections(mock_data, d.fake, fault = "fake", tie_up)
        rug_pull_analysis ==
            predict_rug_pull_risk(mock_data, d.rug, fault = "rug", tie_up)
        risk_map_data == _generate_risk_map_data(address, chain)
    IN  Returned(
          [ address |-> address,
            chain |-> chain,
            analysis_type |-> analysis_type,
            overall_assessment |-> risk_assessment.value,
            fraud_detection |->
              [ wash_trading |-> wash_trading_analysis.value,
                fake_collections |-> fake_collection_analysis.value,
                rug_pull_risk |-> rug_pull_analysis.value ],
            risk_visualization |-> risk_map_data,
            executive_summary |->
                _generate_executive_summary(risk_assessment.value,
                    wash_trading_analysis.value,
                    fake_collection_analysis.value, rug_pull_analysis.value),
            generated_at |-> Timestamp ],
          risk_assessment.log \o wash_trading_analysis.log
              \o fake_collection_analysis.log \o rug_pull_analysis.log)

(***************************************************************************)
(* The risk routes of app.py.  Each one checks the chain, calls one engine *)
(* operation inside try/except Exception and wraps what it returns.        *)
(***************************************************************************)
\* what the route holds after the call: the dict returned, or the exception
Outcome(out) == IF out.raised THEN [kind |-> "raised"] ELSE Dict(out.value)

\* route_fails: the route's own code raises inside its try block, after the
\* engine has returned
Analysed(req, operation, out, route_fails, log_line, resp_ok, resp_failed) ==
    /\ request' = req
    /\ response' = IF out.raised \/ route_fails THEN resp_failed ELSE resp_ok
    /\ ret' = Outcome(out)
    /\ upstream_calls' = <<>>
    /\ engine_calls' = << operation >>
    /\ logged' = out.log \o ( IF out.raised \/ route_fails
                              THEN << log_line \o ": Exception" >>
                              ELSE <<>> )
    /\ UNCHANGED tables

EnvelopeMutant(analysis_type, chain, address, data) ==
    [ success |-> TRUE,
      analysis_type |-> analysis_type,
      chain |-> chain,
      address |-> address,
      data |-> data ]

Envelope(analysis_type, chain, address, data) ==
    [ success |-> TRUE,
      analysis_type |-> analysis_type,
      chain |-> chain,
      address |-> address,
      data |-> data,
      timestamp |-> Timestamp ]

AnalysisTypeInputs == {"comprehensive", "quick"}

comprehensive_risk_analysis ==
    /\ Idle
    /\ \E chain \in ChainInputs, address \in AddressInputs,
          analysis_type \in AnalysisTypeInputs, d \in ReportDraws,
          fault \in ReportFaults, route_fails \in BOOLEAN,
          tie_up \in BOOLEAN :
        LET req == [ route |-> "/api/risk/comprehensive/<chain>/<address>",
                     chain |-> chain, address |-> address,
                     type |-> analysis_type, draws |-> d, fault |-> fault,
                     route_fails |-> route_fails ]
            out == generate_risk_report(address, chain, analysis_type, d,
                                        fault, tie_up)
        IN  IF ~ChainSupported(chain)
            THEN Rejected([route |-> req.route, chain |-> chain,
                           address |-> address],
                          UnsupportedChain(chain))
            ELSE Analysed(req, "generate_risk_report", out, route_fails,
                   "Error in comprehensive risk analysis",
                   Respond(200, Envelope("comprehensive_risk", chain, address,
                                         out.value)),
                   Respond(500, [error |-> "Risk analysis failed"]))

wash_trading_detection ==
    /\ Idle
    /\ \E chain \in ChainInputs, address \in AddressInputs,
          i \in 0..DrawSteps, fails \in BOOLEAN, route_fails \in BOOLEAN,
          tie_up \in BOOLEAN :
        LET d == WashDrawsAt(i)
            req == [ route |-> "/api/risk/wash-trading/<chain>/<address>",
                     chain |-> chain, address |-> address, draws |-> d,
                     fails |-> fails, route_fails |-> route_fails ]
            trading_data == [address |-> address, chain |-> chain]
            out == detect_wash_trading(trading_data, d, fails, tie_up)
        IN  IF ~ChainSupported(chain)
            THEN Rejected([route |-> req.route, chain |-> chain,
                           address |-> address],
                          UnsupportedChain(chain))
            ELSE Analysed(req, "detect_wash_trading", out, route_fails,
                   "Error in wash trading detection",
                   Respond(200, Envelope("wash_trading_detection", chain,
                                         address, out.value)),
                   Respond(500, [error |-> "Wash trading detection failed"]))

fake_collection_detection ==
    /\ Idle
    /\ \E chain \in ChainInputs, address \in AddressInputs,
          i \in 0..DrawSteps, fails \in BOOLEAN, route_fails \in BOOLEAN,
          tie_up \in BOOLEAN :
        LET d == FakeDrawsAt(i)
            req == [ route |-> "/api/risk/fake-collection/<chain>/<address>",
                     chain |-> chain, address |-> address, draws |-> d,
                     fails |-> fails, route_fails |-> route_fails ]
            collection_data == [address |-> address, chain |-> chain]
            out == detect_fake_collections(collection_data, d, fails, tie_up)
        IN  IF ~ChainSupported(chain)
            THEN Rejected([route |-> req.route, chain |-> chain,
                           address |-> address],
                          UnsupportedChain(chain))
            ELSE Analysed(req, "detect_fake_collections", out, route_fails,
                   "Error in fake collection detection",
                   Respond(200, Envelope("fake_collection_detection", chain,
                                         address, out.value)),
                   Respond(500,
                           [error |-> "Fake collection detection failed"]))

rug_pull_prediction ==
    /\ Idle
    /\ \E chain \in ChainInputs, address \in AddressInputs,
          i \in 0..DrawSteps, fails \in BOOLEAN, route_fails \in BOOLEAN,
          tie_up \in BOOLEAN :
        LET d == RugDrawsAt(i)
            req == [ route |-> "/api/risk/rug-pull/<chain>/<address>",
                     chain |-> chain, address |-> address, draws |-> d,
                     fails |-> fails, route_fails |-> route_fails ]
            project_data == [address |-> address, chain |-> chain]
            out == predict_rug_pull_risk(project_data, d, fails, tie_up)
        IN  IF ~ChainSupported(chain)
            THEN Rejected([route |-> req.route, chain |-> chain,
                           address |-> address],
                          UnsupportedChain(chain))
            ELSE Analysed(req, "predict_rug_pull_risk", out, route_fails,
                   "Error in rug pull prediction",
                   Respond(200, Envelope("rug_pull_prediction", chain,
                                         address, out.value)),
                   Respond(500, [error |-> "Rug pull prediction failed"]))

risk_score_calculation ==
    /\ Idle
    /\ \E chain \in ChainInputs, address \in AddressInputs,
          i \in 0..DrawSteps, fails \in BOOLEAN, route_fails \in BOOLEAN,
          tie_up \in BOOLEAN :
        LET d == ScoreDrawsAt(i)
            req == [ route |-> "/api/risk/score/<chain>/<address>",
                     chain |-> chain, address |-> address, draws |-> d,
                     fails |-> fails, route_fails |-> route_fails ]
            nft_data == [address |-> address, chain |-> chain]
            out == calculate_risk_score(nft_data, d, fails, tie_up)
        IN  IF ~ChainSupported(chain)
            THEN Rejected([route |-> req.route, chain |-> chain,
                           address |-> address],
                          UnsupportedChain(chain))
            ELSE Analysed(req, "calculate_risk_score", out, route_fails,
                   "Error in risk score calculation",
                   Respond(200, Envelope("risk_score", chain, address,
                                         out.value)),
                   Respond(500, [error |-> "Risk score calculation failed"]))

\* The map is drawn in the route itself; no engine operation is called.  The
\* numbers of zones are inputs, the zones' values are kept as the
\* expressions that draw them.
fraud_risk_map ==
    /\ Idle
    /\ \E chain \in ChainInputs, n_high \in {3, 8}, n_medium \in {5, 12},
          route_fails \in BOOLEAN :
        LET req == [ route |-> "/api/risk/fraud-map/<chain>", chain |-> chain,
                     n_high |-> n_high, n_medium |-> n_medium,
                     route_fails |-> route_fails ]
            risk_map_data ==
              [ chain |-> chain,
                high_risk_zones |->
                  [ k \in 1..n_high |->
                      [ address |-> "0x<random>",
                        risk_score |-> "random.uniform(0.8, 1.0)",
                        fraud_type |-> "wash_trading, fake_collection or rug_pull",
                        confidence |-> "random.uniform(0.7, 1.0)" ] ],
                medium_risk_zones |->
                  [ k \in 1..n_medium |->
                      [ address |-> "0x<random>",
                        risk_score |-> "random.uniform(0.4, 0.8)",
                        fraud_type |-> "suspicious_activity or metadata_issues",
                        confidence |-> "random.uniform(0.5, 0.8)" ] ],
                network_statistics |->
                  [ total_addresses_analyzed |-> "random.randint(1000, 10000)",
                    high_risk_percentage |-> "random.uniform(5, 15)",
                    medium_risk_percentage |-> "random.uniform(15, 30)",
                    fraud_incidents_24h |-> "random.randint(0, 5)" ],
                trending_risks |->
                  << [ risk_type |-> "wash_trading", trend |-> "increasing",
                       change_percentage |-> "random.uniform(5, 25)" ],
                     [ risk_type |-> "fake_collections",
                       trend |-> "decreasing",
                       change_percentage |-> "random.uniform(-15, -5)" ] >> ]
        IN  IF ~ChainSupported(chain)
            THEN Rejected([route |-> req.route, chain |-> chain],
                          UnsupportedChain(chain))
            ELSE /\ request' = req
                 /\ response' =
                      IF route_fails
                      THEN Respond(500,
                             [error |-> "Fraud risk map generation failed"])
                      ELSE Respond(200,
                             [ success |-> TRUE,
                               analysis_type |-> "fraud_risk_map",
                               chain |-> chain,
                               data |-> risk_map_data,
                               timestamp |-> Timestamp ])
                 /\ ret' = NoCall
                 /\ upstream_calls' = <<>>
                 /\ engine_calls' = <<>>
                 /\ logged' = IF route_fails
                              THEN << "Error generating fraud risk map: Exception" >>
                              ELSE <<>>
                 /\ UNCHANGED tables

(***************************************************************************)
(* The engine's operations called directly, as a caller other than the     *)
(* routes (a test, a script) calls them.                                   *)
(***************************************************************************)
NftDataInputs ==
    { [address |-> "0xabc", chain |-> "ethereum"],
      [address |-> "0xdef", chain |-> "polygon"] }

Called(req, operation, out) ==
    /\ request' = req
    /\ response' = NoResponse
    /\ ret' = Outcome(out)
    /\ upstream_calls' = <<>>
    /\ engine_calls' = << operation >>
    /\ logged' = out.log
    /\ UNCHANGED tables

\* when the operation fails the draws decide nothing: a few are enough
FailsOnlyAt(fails, d, diagonal) == fails => d \in diagonal

call_calculate_risk_score ==
    /\ Idle
    /\ \E nft_data \in NftDataInputs, d \in ScoreDraws, fails \in BOOLEAN,
          tie_up \in BOOLEAN :
        /\ FailsOnlyAt(fails, d, {ScoreDrawsAt(i) : i \in 0..DrawSteps})
        /\ Called([ route |-> "calculate_risk_score", nft_data |-> nft_data,
                    draws |-> d, fails |-> fails ],
                  "calculate_risk_score",
                  calculate_risk_score(nft_data, d, fails, tie_up))

call_detect_wash_trading ==
    /\ Idle
    /\ \E data \in NftDataInputs, d \in WashDraws, fails \in BOOLEAN,
          tie_up \in BOOLEAN :
        /\ FailsOnlyAt(fails, d, {WashDrawsAt(i) : i \in 0..DrawSteps})
        /\ Called([ route |-> "detect_wash_trading", nft_data |-> data,
                    draws |-> d, fails |-> fails ],
                  "detect_wash_trading",
                  detect_wash_trading(data, d, fails, tie_up))

call_detect_fake_collections ==
    /\ Idle
    /\ \E data \in NftDataInputs, d \in FakeDraws, fails \in BOOLEAN,
          tie_up \in BOOLEAN :
        /\ FailsOnlyAt(fails, d, {FakeDrawsAt(i) : i \in 0..DrawSteps})
        /\ Called([ route |-> "detect_fake_collections", nft_data |-> data,
                    draws |-> d, fails |-> fails ],
                  "detect_fake_collections",
                  detect_fake_collections(data, d, fails, tie_up))

call_predict_rug_pull_risk ==
    /\ Idle
    /\ \E data \in NftDataInputs, d \in RugDraws, fails \in BOOLEAN,
          tie_up \in BOOLEAN :
        /\ FailsOnlyAt(fails, d, {RugDrawsAt(i) : i \in 0..DrawSteps})
        /\ Called([ route |-> "predict_rug_pull_risk", nft_data |-> data,
                    draws |-> d, fails |-> fails ],
                  "predict_rug_pull_risk",
                  predict_rug_pull_risk(data, d, fails, tie_up))

call_generate_risk_report ==
    /\ Idle
    /\ \E data \in NftDataInputs, d \in ReportDraws, fault \in ReportFaults,
          tie_up \in BOOLEAN :
        Called([ route |-> "generate_risk_report", nft_data |-> data,
                 draws |-> d, fault |-> fault ],
               "generate_risk_report",
               generate_risk_report(data.address, data.chain, "comprehensive",
                                    d, fault, tie_up))

\* scores in 1e-5: the thresholds, their neighbours, and the ends
ScoreInputs ==
    { -1, 0, 1, 29999, 30000, 30001, 59999, 60000, 60001, 79999, 80000,
      80001, 99999, 100000, 130000 }

call_get_risk_level ==
    /\ Idle
    /\ \E score \in ScoreInputs :
        Called([route |-> "_get_risk_level", score |-> score],
               "_get_risk_level",
               Returned([level |-> _get_risk_level(score)], <<>>))

(***************************************************************************)
(* The gateway's methods called directly, with any chain name: they are    *)
(* public methods of UnleashNFTsAPI and make no check of their own.        *)
(***************************************************************************)
\* chain arguments of a direct call: mapped names and unmapped ones
GatewayChainInputs == {"ethereum", "polygon", "foo", "Ethereum"}

call_Api_get_market_metrics ==
    /\ Idle
    /\ \E chain \in GatewayChainInputs, metrics \in MetricInputs,
          outcome \in UpstreamOutcomes :
        Proxied([ route |-> "UnleashNFTsAPI.get_market_metrics",
                  chain |-> chain, metrics |-> << metrics >>,
                  time_range |-> "24h", currency |-> "usd" ],
                Api_get_market_metrics(chain, metrics, "24h", "usd", outcome),
                NoResponse)

call_Api_get_washtrade_metrics ==
    /\ Idle
    /\ \E chain \in GatewayChainInputs, outcome \in UpstreamOutcomes :
        Proxied([ route |-> "UnleashNFTsAPI.get_washtrade_metrics",
                  chain |-> chain, metrics |-> << "washtrade_volume" >>,
                  time_range |-> "24h", currency |-> "usd" ],
                Api_get_washtrade_metrics(chain, "24h", "usd", outcome),
                NoResponse)

\* metrics_list arguments: lists of one to MaxMetrics metric names
MetricsLists == UNION { [1..n -> MetricInputs] : n \in 1..MaxMetrics }

call_Api_get_multiple_metrics ==
    /\ Idle
    /\ \E chain \in {"ethereum", "foo"}, metrics_list \in MetricsLists :
      \E outcomes \in [DOMAIN metrics_list -> UpstreamOutcomes] :
        Proxied([ route |-> "UnleashNFTsAPI.get_multiple_metrics",
                  chain |-> chain, metrics |-> metrics_list,
                  time_range |-> "24h", currency |-> "usd" ],
                Api_get_multiple_metrics(chain, metrics_list, "24h", "usd",
                                         outcomes),
                NoResponse)

(***************************************************************************)
(* The URL rules the app registers, and the endpoints tests/test_api.py    *)
(* requests.  A GET whose path matches no rule is answered 404 by Flask.   *)
(***************************************************************************)
UrlMap ==
    { "/api/health",
      "/api/market/metrics/<chain>",
      "/api/blockchains",
      "/api/market/multiple-metrics/<chain>",
      "/api/market/washtrade/<chain>",
      "/api/chains",
      "/api/risk/comprehensive/<chain>/<address>",
      "/api/risk/wash-trading/<chain>/<address>",
      "/api/risk/fake-collection/<chain>/<address>",
      "/api/risk/rug-pull/<chain>/<address>",
      "/api/risk/score/<chain>/<address>",
      "/api/risk/fraud-map/<chain>" }

TestedEndpoints ==
    { "/api/health",
      "/api/nft/price-prediction",
      "/api/nft/collection-analysis",
      "/api/nft/wash-trading-detection",
      "/api/nft/forgery-detection" }

NotFound == Respond(404, [html |-> "Not Found"])

\* a request of the test suite: the path, and the query parameters it sends
test_request ==
    /\ Idle
    /\ \E path \in TestedEndpoints :
        LET req == [ route |-> path,
                     contract_address |->
                         "0xBC4CA0EdA7647A8aB7C2061c2E118A18a936f13D",
                     token_id |-> "1", blockchain |-> "ethereum" ]
        IN  /\ path \notin UrlMap
            /\ Rejected(req, NotFound)

\* the response has been sent: everything of the request is discarded
Teardown ==
    /\ ~Idle
    /\ request' = [route |-> "none"]
    /\ response' = NoResponse
    /\ ret' = NoCall
    /\ upstream_calls' = <<>>
    /\ engine_calls' = <<>>
    /\ logged' = <<>>
    /\ UNCHANGED tables

Next ==
    \/ health_check
    \/ get_supported_chains
    \/ get_market_metrics
    \/ get_blockchains
    \/ get_multiple_metrics
    \/ get_washtrade_metrics
    \/ comprehensive_risk_analysis
    \/ wash_trading_detection
    \/ fake_collection_detection
    \/ rug_pull_prediction
    \/ risk_score_calculation
    \/ fraud_risk_map
    \/ test_request
    \/ call_calculate_risk_score
    \/ call_detect_wash_trading
    \/ call_detect_fake_collections
    \/ call_predict_rug_pull_risk
    \/ call_generate_risk_report
    \/ call_get_risk_level
    \/ call_Api_get_market_metrics
    \/ call_Api_get_washtrade_metrics
    \/ call_Api_get_multiple_metrics
    \/ Teardown

Spec == Init /\ [][Next]_vars

(***************************************************************************)
(* Properties.                                                             *)
(***************************************************************************)
SixChains == {"ethereum", "polygon", "bsc", "avalanche", "linea", "solana"}

ChainRoutes ==
    { "/api/market/metrics/<chain>",
      "/api/market/multiple-metrics/<chain>",
      "/api/market/washtrade/<chain>",
      "/api/risk/comprehensive/<chain>/<address>",
      "/api/risk/wash-trading/<chain>/<address>",
      "/api/risk/fake-collection/<chain>/<address>",
      "/api/risk/rug-pull/<chain>/<address>",
      "/api/risk/score/<chain>/<address>",
      "/api/risk/fraud-map/<chain>" }

HasError(text) ==
    /\ "error" \in DOMAIN response.body
    /\ response.body.error = text

\* C1: on each of the nine routes with a {chain} parameter, a chain outside
\* the six names is answered 400 "Unsupported chain: <chain>" and neither
\* the gateway nor the engine is called; a chain among the six never gets
\* that error.
C1_ChainValidation ==
    request.route \in ChainRoutes =>
        IF request.chain \in SixChains
        THEN /\ response.status # 400
             /\ ~HasError("Unsupported chain: " \o request.chain)
        ELSE /\ response.status = 400
             /\ response.body
                    = [error |-> "Unsupported chain: " \o request.chain]
             /\ upstream_calls = <<>>
             /\ engine_calls = <<>>
             /\ ret = NoCall

C1_Witness ==
    /\ request.route = "/api/risk/score/<chain>/<address>"
    /\ request.chain = "Ethereum"
    /\ response.status = 400
    /\ HasError("Unsupported chain: Ethereum")

ExpectedChainId(chain) ==
    CASE chain = "ethereum" -> 1
      [] chain = "polygon" -> 137
      [] chain = "bsc" -> 57
      [] chain = "avalanche" -> 43114
      [] chain = "linea" -> 59144
      [] chain = "solana" -> 900

\* C2: SUPPORTED_CHAINS is exactly the key set of CHAIN_ID_MAP, the map is
\* ethereum->1, polygon->137, bsc->57, avalanche->43114, linea->59144,
\* solana->900, and every upstream market request of a route carries
\* blockchain = CHAIN_ID_MAP[chain].
C2_ChainIdMapping ==
    /\ Range(SUPPORTED_CHAINS) = DOMAIN CHAIN_ID_MAP
    /\ DOMAIN CHAIN_ID_MAP = SixChains
    /\ \A c \in SixChains : CHAIN_ID_MAP[c] = ExpectedChainId(c)
    /\ \A i \in DOMAIN upstream_calls :
           ( /\ request.route \in ChainRoutes
             /\ upstream_calls[i].url = "/market/metrics" ) =>
               /\ request.chain \in SixChains
               /\ upstream_calls[i].blockchain = ExpectedChainId(request.chain)

C2_Witness ==
    /\ request.route = "/api/market/washtrade/<chain>"
    /\ request.chain = "solana"
    /\ Len(upstream_calls) = 1
    /\ upstream_calls[1].blockchain = 900

SingleGetRoutes ==
    { "/api/market/metrics/<chain>", "/api/market/washtrade/<chain>",
      "/api/blockchains" }

GenericMessage(route) ==
    CASE route = "/api/market/metrics/<chain>" -> "Failed to get market metrics"
      [] route = "/api/market/washtrade/<chain>" ->
             "Failed to get washtrade metrics"
      [] route = "/api/blockchains" -> "Failed to get blockchains"

UpstreamFailed(call) == call.reply.kind \in {"non_2xx", "network"}

\* C3: on /api/market/metrics, /api/market/washtrade and /api/blockchains,
\* when the single upstream GET ends non-2xx or in a network failure, the
\* gateway returns None without raising and the route answers 500 with its
\* fixed message, which does not carry the cause (the cause is only logged).
C3_UpstreamFailure ==
    ( /\ request.route \in SingleGetRoutes
      /\ upstream_calls # <<>>
      /\ UpstreamFailed(upstream_calls[1]) ) =>
        /\ Len(upstream_calls) = 1
        /\ ret = None
        /\ response.status = 500
        /\ response.body = [error |-> GenericMessage(request.route)]
        /\ response.body.error # upstream_calls[1].reply.cause
        /\ Len(logged) = 1

C3_Witness ==
    /\ request.route = "/api/blockchains"
    /\ Len(upstream_calls) = 1
    /\ upstream_calls[1].reply.kind = "network"
    /\ response.status = 500
    /\ ret = None

\* the metric names whose single-metric call gave a result (not None)
SucceededMetrics ==
    { upstream_calls[i].metrics :
        i \in { j \in DOMAIN upstream_calls :
                  /\ upstream_calls[j].reply.kind = "ok"
                  /\ upstream_calls[j].reply.json # "null" } }

\* C4: get_multiple_metrics returns None when every call fails and otherwise
\* a mapping whose keys are exactly the metric names whose call succeeded;
\* the multiple-metrics route answers 500 only when every call failed.
C4_MultiMetricKeys ==
    ( /\ request.route = "/api/market/multiple-metrics/<chain>"
      /\ request.chain \in SixChains ) =>
        IF SucceededMetrics = {}
        THEN ret = None /\ response.status = 500
        ELSE /\ ret.kind = "dict"
             /\ DOMAIN ret.value.metric_values = SucceededMetrics
             /\ response.status = 200

Rank(level) ==
    CASE level = "LOW" -> 0
      [] level = "MEDIUM" -> 1
      [] level = "HIGH" -> 2
      [] level = "CRITICAL" -> 3

\* C5: _get_risk_level gives LOW below 0.3, MEDIUM from 0.3 to below 0.6,
\* HIGH from 0.6 to below 0.8 and CRITICAL from 0.8 on (each threshold in
\* the higher bucket), and a larger score never gets a lower level.
C5_RiskLevelBuckets ==
    request.route = "_get_risk_level" =>
        LET score == request.score
            level == ret.value.level
        IN  /\ (score < 30000) = (level = "LOW")
            /\ (30000 <= score /\ score < 60000) = (level = "MEDIUM")
            /\ (60000 <= score /\ score < 80000) = (level = "HIGH")
            /\ (80000 <= score) = (level = "CRITICAL")
            /\ \A other \in ScoreInputs :
                   other <= score =>
                       Rank(_get_risk_level(other)) <= Rank(level)

C5_Witness ==
    /\ request.route = "_get_risk_level"
    /\ request.score = 30000
    /\ ret.value.level = "MEDIUM"

ScoreCompleted ==
    /\ request.route \in { "calculate_risk_score",
                           "/api/risk/score/<chain>/<address>" }
    /\ ret.kind = "dict"
    /\ ~request.fails

\* 0.3*volume + 0.25*trading + 0.25*metadata + 0.2*social in 1e-5, of the
\* sub-scores (thousandths) a result reports
WeightedSum(analysis) ==
    30 * analysis.volume_analysis.risk_score
    + 25 * analysis.trading_analysis.risk_score
    + 25 * analysis.metadata_analysis.risk_score
    + 20 * analysis.social_analysis.risk_score

\* C6: calculate_risk_score reports overall_risk_score = 0.3*volume +
\* 0.25*trading + 0.25*metadata + 0.2*social rounded to 3 decimals (the
\* nearest thousandth), and risk_components holds exactly those four terms.
C6_WeightedScore ==
    ScoreCompleted =>
        LET a == ret.value
            sum == WeightedSum(a.detailed_analysis)
            sub == a.detailed_analysis
        IN  /\ a.risk_components
                 = [ volume_risk |-> 30 * sub.volume_analysis.risk_score,
                     trading_risk |-> 25 * sub.trading_analysis.risk_score,
                     metadata_risk |-> 25 * sub.metadata_analysis.risk_score,
                     social_risk |-> 20 * sub.social_analysis.risk_score ]
            /\ a.overall_risk_score * 100 - sum <= 50
            /\ sum - a.overall_risk_score * 100 <= 50

C6_Witness ==
    /\ ScoreCompleted
    /\ request.route = "calculate_risk_score"
    /\ WeightedSum(ret.value.detailed_analysis) % 100 \notin {0, 50}
    /\ ret.value.risk_components.social_risk > 0
    /\ ret.value.risk_components.metadata_risk > 0

EngineOperations ==
    { "calculate_risk_score", "detect_wash_trading",
      "detect_fake_collections", "predict_rug_pull_risk",
      "generate_risk_report" }

\* the operation called directly met an internal failure
EngineFailed ==
    /\ request.route \in EngineOperations
    /\ IF request.route = "generate_risk_report"
       THEN request.fault # "none"
       ELSE request.fails

ManualReview == "Unable to complete analysis - manual review recommended"

\* score 0.5, level MEDIUM and the 'manual review recommended' message
IsDefaultPayload(v) ==
    /\ {"overall_risk_score", "risk_level", "recommendations"} \subseteq DOMAIN v
    /\ v.overall_risk_score = 500
    /\ v.risk_level = "MEDIUM"
    /\ v.recommendations = << ManualReview >>

\* C7, as the specification states it: on any internal failure every engine
\* operation returns the default payload (score 0.5, MEDIUM, manual review),
\* at the top level or, for a report, as its overall assessment.
C7_DefaultPayloadOnFailure ==
    EngineFailed =>
        /\ ret.kind = "dict"
        /\ \/ IsDefaultPayload(ret.value)
           \/ /\ "overall_assessment" \in DOMAIN ret.value
              /\ IsDefaultPayload(ret.value.overall_assessment)

\* C7, amended: on an internal failure no engine operation raises;
\* calculate_risk_score returns the default payload (0.5, MEDIUM, manual
\* review); generate_risk_report, when its own code fails, returns the
\* default report (analysis_type 'error') whose overall assessment is that
\* payload, and when an operation it calls fails, a report that embeds that
\* operation's fallback; each detector returns its own fixed payload: flag
\* False, score 0.0, confidence 0.0.
C7_FallbackPerOperation ==
    EngineFailed =>
        /\ ret.kind = "dict"
        /\ request.route = "calculate_risk_score" =>
               /\ IsDefaultPayload(ret.value)
               /\ ret.value.risk_components = <<>>
               /\ ret.value.detailed_analysis = <<>>
        /\ request.route = "detect_wash_trading" =>
               ret.value = [ is_wash_trading |-> FALSE,
                             wash_trading_score |-> 0, confidence |-> 0 ]
        /\ request.route = "detect_fake_collections" =>
               ret.value = [ is_fake_collection |-> FALSE,
                             fake_score |-> 0, confidence |-> 0 ]
        /\ request.route = "predict_rug_pull_risk" =>
               ret.value = [ is_high_rug_pull_risk |-> FALSE,
                             rug_pull_risk_score |-> 0, confidence |-> 0 ]
        /\ request.route = "generate_risk_report" =>
               LET report == ret.value
               IN  /\ request.fault = "report" =>
                       /\ report.analysis_type = "error"
                       /\ IsDefaultPayload(report.overall_assessment)
                       /\ report.fraud_detection = <<>>
                   /\ request.fault = "score" =>
                       /\ report.analysis_type = "comprehensive"
                       /\ IsDefaultPayload(report.overall_assessment)
                   /\ request.fault = "wash" =>
                       report.fraud_detection.wash_trading
                           = [ is_wash_trading |-> FALSE,
                               wash_trading_score |-> 0, confidence |-> 0 ]
                   /\ request.fault = "fake" =>
                       report.fraud_detection.fake_collections
                           = [ is_fake_collection |-> FALSE,
                               fake_score |-> 0, confidence |-> 0 ]
                   /\ request.fault = "rug" =>
                       report.fraud_detection.rug_pull_risk
                           = [ is_high_rug_pull_risk |-> FALSE,
                               rug_pull_risk_score |-> 0, confidence |-> 0 ]

C7_Witness ==
    /\ request.route = "detect_wash_trading"
    /\ request.fails
    /\ ret.kind = "dict"
    /\ ret.value.wash_trading_score = 0
    /\ ~ret.value.is_wash_trading
    /\ logged # <<>>

ComprehensiveServed ==
    /\ request.route = "/api/risk/comprehensive/<chain>/<address>"
    /\ request.chain \in SixChains

\* C8, as the specification states it: an exception inside the risk
\* analysis, while /api/risk/comprehensive is served for a supported chain,
\* is answered 500 'Risk analysis failed', not with a 200 envelope.
C8_EngineFailureIs500 ==
    (ComprehensiveServed /\ request.fault # "none") =>
        /\ response.status = 500
        /\ HasError("Risk analysis failed")

\* C8, amended: an exception inside the risk engine, while
\* /api/risk/comprehensive is served for a supported chain, is absorbed by
\* the engine: the route answers 200 with the success envelope around the
\* engine's fallback (the default report, analysis_type 'error', when
\* generate_risk_report's own code fails).  The route answers 500 'Risk
\* analysis failed' exactly when its own code, outside the engine, raises.
C8_EngineFailureIs200 ==
    ComprehensiveServed =>
        /\ engine_calls = << "generate_risk_report" >>
        /\ ret.kind = "dict"
        /\ IF request.route_fails
           THEN /\ response.status = 500
                /\ response.body = [error |-> "Risk analysis failed"]
           ELSE /\ response.status = 200
                /\ response.body.success
                /\ response.body.analysis_type = "comprehensive_risk"
                /\ response.body.data = ret.value
                /\ request.fault = "report" =>
                       /\ response.body.data.analysis_type = "error"
                       /\ IsDefaultPayload(
                              response.body.data.overall_assessment)

C8_Witness ==
    /\ ComprehensiveServed
    /\ request.fault = "report"
    /\ ~request.route_fails
    /\ response.status = 200
    /\ response.body.data.analysis_type = "error"

\* C9, as the specification states it: every status-200 response body, on
\* every route, has a top-level 'timestamp' entry.
C9_TimestampEverywhere ==
    response.status = 200 => "timestamp" \in DOMAIN response.body

\* C9, amended: every status-200 response body of every route except
\* /api/chains has a top-level 'timestamp' entry; the body of /api/chains
\* is exactly supported_chains and default_chain, without a timestamp.
C9_TimestampExceptChains ==
    response.status = 200 =>
        IF request.route = "/api/chains"
        THEN DOMAIN response.body = {"supported_chains", "default_chain"}
        ELSE /\ "timestamp" \in DOMAIN response.body
             /\ response.body.timestamp = Timestamp

C9_Witness ==
    /\ request.route = "/api/risk/rug-pull/<chain>/<address>"
    /\ response.status = 200
    /\ "timestamp" \in DOMAIN response.body

\* C10: every endpoint the test suite requests is a route the service
\* defines, and the request the test sends is answered 200.
C10_TestedEndpointsServed ==
    request.route \in TestedEndpoints =>
        /\ request.route \in UrlMap
        /\ response.status = 200

GatewayMethods ==
    { "UnleashNFTsAPI.get_market_metrics",
      "UnleashNFTsAPI.get_washtrade_metrics",
      "UnleashNFTsAPI.get_multiple_metrics" }

\* C11: get_market_metrics, get_washtrade_metrics and get_multiple_metrics of
\* the gateway, called with a chain name that is no key of CHAIN_ID_MAP,
\* issue no upstream HTTP request.
C11_UnmappedChainRejected ==
    ( /\ request.route \in GatewayMethods
      /\ request.chain \notin DOMAIN CHAIN_ID_MAP ) =>
        upstream_calls = <<>>

MultiMetricServed ==
    \/ /\ request.route = "/api/market/multiple-metrics/<chain>"
       /\ request.chain \in SixChains
    \/ request.route = "UnleashNFTsAPI.get_multiple_metrics"

\* C12: for a metrics list of n entries get_multiple_metrics issues exactly
\* n upstream GETs, one per entry and in list order, one after the other;
\* a call that failed does not stop the calls for the later entries, and no
\* entry is asked for twice.
C12_OneGetPerMetric ==
    MultiMetricServed =>
        /\ Len(upstream_calls) = Len(request.metrics)
        /\ \A i \in DOMAIN upstream_calls :
               /\ upstream_calls[i].url = "/market/metrics"
               /\ upstream_calls[i].metrics = Strip(request.metrics[i])
        /\ Len(logged) =
               Cardinality({ i \in DOMAIN upstream_calls :
                               upstream_calls[i].reply.kind # "ok" })

C12_Witness ==
    /\ request.route = "/api/market/multiple-metrics/<chain>"
    /\ Len(request.metrics) = 2
    /\ Len(upstream_calls) = 2
    /\ upstream_calls[1].reply.kind = "network"
    /\ upstream_calls[2].reply.kind = "ok"
    /\ upstream_calls[2].metrics = "sales"
    /\ response.status = 200

ReportRoutes ==
    { "generate_risk_report", "/api/risk/comprehensive/<chain>/<address>" }

\* a report was served and calculate_risk_score ran inside it
ReportServed ==
    /\ request.route \in ReportRoutes
    /\ ret.kind = "dict"
    /\ request.fault # "report"

\* the results of calculate_risk_score the state holds, with the draws each
\* one was computed from: normal results, and all results
ScoreResults ==
    ( IF ScoreCompleted
      THEN { [result |-> ret.value, draws |-> request.draws] } ELSE {} )
    \cup ( IF ReportServed /\ request.fault # "score"
           THEN { [ result |-> ret.value.overall_assessment,
                    draws |-> request.draws.score ] }
           ELSE {} )

\* the documented ranges of the draws of the four sub-analyses (hundredths)
ScoreDrawsInRange(d) ==
    /\ d.volume_volatility >= 10 /\ d.volume_volatility <= 200
    /\ d.unusual_spikes \in 0..5
    /\ d.repetitive_trades >= 0 /\ d.repetitive_trades <= 100
    /\ d.bot_activity >= 0 /\ d.bot_activity <= 100
    /\ d.similarity_score >= 0 /\ d.similarity_score <= 100
    /\ d.missing_data >= 0 /\ d.missing_data <= 50
    /\ d.engagement_score >= 0 /\ d.engagement_score <= 100
    /\ d.sentiment_score >= -100 /\ d.sentiment_score <= 100

SubAnalyses ==
    { "volume_analysis", "trading_analysis", "metadata_analysis",
      "social_analysis" }

\* C13: for every draw inside the documented ranges each of the four
\* sub-analyses (volume, trading, metadata, social) returns a risk_score in
\* [0, 1] (0..1000 thousandths).
C13_SubScoresInUnitInterval ==
    \A s \in ScoreResults :
        ScoreDrawsInRange(s.draws) =>
            \A name \in SubAnalyses :
                /\ s.result.detailed_analysis[name].risk_score >= 0
                /\ s.result.detailed_analysis[name].risk_score <= 1000

\* the cap of the volume sub-score is what keeps it at 1.0, and the social
\* sub-score reaches 1.0
C13_Witness ==
    /\ request.route = "calculate_risk_score"
    /\ ScoreCompleted
    /\ request.draws.volume_volatility = 200
    /\ request.draws.unusual_spikes = 5
    /\ request.draws.engagement_score = 0
    /\ request.draws.sentiment_score = -100
    /\ ret.value.detailed_analysis.volume_analysis.risk_score = 1000
    /\ ret.value.detailed_analysis.social_analysis.risk_score = 1000

\* the canned warning line of each sub-analysis
WarningLine(name) ==
    CASE name = "volume_analysis" -> "Volume patterns show irregularities"
      [] name = "trading_analysis" -> "Potential bot activity detected"
      [] name = "metadata_analysis" -> "Metadata integrity concerns"
      [] name = "social_analysis" -> "Weak community engagement"

\* C14: in every result of calculate_risk_score, for each of the four
\* sub-analyses, when its sub-score exceeds 0.6 the recommendations list
\* contains its canned warning line.
C14_WarningLines ==
    \A s \in ScoreResults :
        \A name \in SubAnalyses :
            s.result.detailed_analysis[name].risk_score > 600 =>
                WarningLine(name) \in Range(s.result.recommendations)

\* The normal-path results of each detector the state holds, with the draws
\* each one was computed from: of a direct call, of the detector's route, or
\* inside a report.
DetectorResults(operation, route, key) ==
    ( IF /\ request.route \in {operation, route}
         /\ ret.kind = "dict"
         /\ ~request.fails
      THEN { [result |-> ret.value, draws |-> request.draws] } ELSE {} )
    \cup ( IF ReportServed /\ request.fault # key
           THEN { [ result |-> ret.value.fraud_detection[
                                   CASE key = "wash" -> "wash_trading"
                                     [] key = "fake" -> "fake_collections"
                                     [] key = "rug" -> "rug_pull_risk" ],
                    draws |-> request.draws[key] ] }
           ELSE {} )

WashResults ==
    DetectorResults("detect_wash_trading",
                    "/api/risk/wash-trading/<chain>/<address>", "wash")

FakeResults ==
    DetectorResults("detect_fake_collections",
                    "/api/risk/fake-collection/<chain>/<address>", "fake")

RugResults ==
    DetectorResults("predict_rug_pull_risk",
                    "/api/risk/rug-pull/<chain>/<address>", "rug")

\* the combined weighted scores, in 1e-5, of draws in hundredths
WashScore(d) ==
    40 * Min(d.volume_spike * 2, 1000)
    + 350 * d.repetitive_patterns + 250 * d.price_manipulation

FakeScore(d) ==
    400 * d.metadata_similarity + 30 * Min(d.rapid_minting * 10, 1000)
    + 300 * d.suspicious_traits

RugScore(d) ==
    400 * (100 - d.creator_activity) + 350 * d.liquidity_drain
    + 250 * (100 - d.social_signals)

\* x (thousandths) is y (1e-5) rounded to 3 decimals
IsRounded(x, y) == x * 100 - y <= 50 /\ y - x * 100 <= 50

\* C15: each detector raises its flag exactly when its combined weighted
\* score strictly exceeds its threshold (0.6 wash trading, 0.7 fake
\* collection, 0.6 rug pull), the score it reports being that score rounded;
\* the rug-pull score uses (1 - creator_activity) and (1 - social_signals),
\* so lower activity or lower social signal never lowers it.
C15_DetectorFlags ==
    /\ \A w \in WashResults :
           /\ w.result.is_wash_trading <=> (WashScore(w.draws) > 60000)
           /\ IsRounded(w.result.wash_trading_score, WashScore(w.draws))
    /\ \A f \in FakeResults :
           /\ f.result.is_fake_collection <=> (FakeScore(f.draws) > 70000)
           /\ IsRounded(f.result.fake_score, FakeScore(f.draws))
    /\ \A r \in RugResults :
           /\ r.result.is_high_rug_pull_risk <=> (RugScore(r.draws) > 60000)
           /\ IsRounded(r.result.rug_pull_risk_score, RugScore(r.draws))
           /\ \A lower \in RugDraws :
                  ( /\ lower.creator_activity <= r.draws.creator_activity
                    /\ lower.social_signals <= r.draws.social_signals
                    /\ lower.liquidity_drain = r.draws.liquidity_drain ) =>
                      predict_rug_pull_risk(<<>>, lower, FALSE, TRUE)
                          .value.rug_pull_risk_score
                      >= predict_rug_pull_risk(<<>>, r.draws, FALSE, TRUE)
                             .value.rug_pull_risk_score

\* a fake-collection score between 0.6 and 0.7 raises no flag
C15_Witness ==
    /\ request.route = "detect_fake_collections"
    /\ ~request.fails
    /\ FakeScore(request.draws) = 65000
    /\ ret.value.fake_score = 650
    /\ ~ret.value.is_fake_collection

\* min(score * factor, 1.0) in 1e-5, the factor in tenths
ScaledAndCapped(score, tenths) ==
    IF score * tenths >= 1000000 THEN 100000 ELSE (score * tenths) \div 10

\* what C16 asks of one detector result: its score (1e-5), the score and
\* the confidence it reports (thousandths), its flag, factor and threshold
ConfidenceOk(score, reported, confidence, flag, tenths, threshold) ==
    /\ IsRounded(confidence, ScaledAndCapped(score, tenths))
    /\ confidence >= 0 /\ confidence <= 1000
    /\ confidence >= reported
    /\ flag => confidence * 1000 >= threshold * tenths

InitialTables ==
    /\ CHAIN_ID_MAP = [ c \in SixChains |-> ExpectedChainId(c) ]
    /\ SUPPORTED_CHAINS = << "ethereum", "polygon", "bsc", "avalanche",
                             "linea", "solana" >>
    /\ headers = [ x_api_key |-> "UNLEASH_API_KEY",
                   accept |-> "application/json" ]
    /\ risk_thresholds = [ low |-> 30000, medium |-> 60000, high |-> 80000 ]
    /\ fraud_patterns.wash_trading
           = [ volume_spike_threshold |-> 500,
               repetitive_trading_threshold |-> 70,
               price_manipulation_threshold |-> 80 ]
    /\ fraud_patterns.fake_collections
           = [ metadata_similarity_threshold |-> 90,
               rapid_minting_threshold |-> 100,
               suspicious_traits_threshold |-> 80 ]
    /\ fraud_patterns.rug_pulls
           = [ creator_activity_threshold |-> 20,
               liquidity_drain_threshold |-> 80,
               social_signals_threshold |-> 30 ]
    /\ DOMAIN fraud_patterns
           = {"wash_trading", "fake_collections", "rug_pulls"}

OtherData ==
    { [address |-> "0xabc", chain |-> "ethereum"],
      [address |-> "0xdef", chain |-> "polygon"],
      [address |-> "", chain |-> "foo"] }

\* the operation was called on its own (directly or by its route) and
\* returned
Served(operation, route) ==
    /\ request.route \in {operation, route}
    /\ ret.kind = "dict"

\* C18: the address/chain pair is ignored by the scorer: calculate_risk_score
\* and each of the three detectors, run again on the same draws with any
\* other address and chain, return the same value (scores, level, flags,
\* components, indicators, recommendations).
C18_AddressChainIgnored ==
    \E tie_up \in BOOLEAN :
        \A other \in OtherData :
            /\ Served("calculate_risk_score",
                      "/api/risk/score/<chain>/<address>") =>
                   calculate_risk_score(other, request.draws, request.fails,
                                        tie_up).value = ret.value
            /\ Served("detect_wash_trading",
                      "/api/risk/wash-trading/<chain>/<address>") =>
                   detect_wash_trading(other, request.draws, request.fails,
                                       tie_up).value = ret.value
            /\ Served("detect_fake_collections",
                      "/api/risk/fake-collection/<chain>/<address>") =>
                   detect_fake_collections(other, request.draws,
                                           request.fails, tie_up).value
                       = ret.value
            /\ Served("predict_rug_pull_risk",
                      "/api/risk/rug-pull/<chain>/<address>") =>
                   predict_rug_pull_risk(other, request.draws, request.fails,
                                         tie_up).value = ret.value

C18_Witness ==
    /\ Served("calculate_risk_score", "/api/risk/score/<chain>/<address>")
    /\ request.route = "calculate_risk_score"
    /\ request.nft_data = [address |-> "0xdef", chain |-> "polygon"]
    /\ ~request.fails
    /\ ret.value.risk_level = "HIGH"
    /\ ret.value
           = calculate_risk_score([address |-> "0xabc", chain |-> "ethereum"],
                                  request.draws, FALSE, TRUE).value

\* a reported score (thousandths) lies in [0, 1]
InUnitInterval(x) == x >= 0 /\ x <= 1000

\* C19: the overall_risk_score calculate_risk_score returns, on the normal
\* path and on the default-fallback path alike, lies in [0, 1], and so does
\* the score of each of the three detectors (wash_trading_score, fake_score,
\* rug_pull_risk_score).
C19_ScoresInUnitInterval ==
    /\ Served("calculate_risk_score", "/api/risk/score/<chain>/<address>") =>
           InUnitInterval(ret.value.overall_risk_score)
    /\ (request.route \in ReportRoutes /\ ret.kind = "dict") =>
           InUnitInterval(ret.value.overall_assessment.overall_risk_score)
    /\ Served("detect_wash_trading",
              "/api/risk/wash-trading/<chain>/<address>") =>
           InUnitInterval(ret.value.wash_trading_score)
    /\ Served("detect_fake_collections",
              "/api/risk/fake-collection/<chain>/<address>") =>
           InUnitInterval(ret.value.fake_score)
    /\ Served("predict_rug_pull_risk",
              "/api/risk/rug-pull/<chain>/<address>") =>
           InUnitInterval(ret.value.rug_pull_risk_score)
    /\ \A w \in WashResults : InUnitInterval(w.result.wash_trading_score)
    /\ \A f \in FakeResults : InUnitInterval(f.result.fake_score)
    /\ \A r \in RugResults : InUnitInterval(r.result.rug_pull_risk_score)

\* every draw at the end of its range that raises the risk: the largest
\* overall score, 0.9625 before rounding
C19_Witness ==
    /\ request.route = "calculate_risk_score"
    /\ ScoreCompleted
    /\ ret.value.detailed_analysis.volume_analysis.risk_score = 1000
    /\ ret.value.detailed_analysis.trading_analysis.risk_score = 1000
    /\ ret.value.detailed_analysis.metadata_analysis.risk_score = 850
    /\ ret.value.detailed_analysis.social_analysis.risk_score = 1000
    /\ ret.value.overall_risk_score \in {962, 963}

\* the bucket of a reported score (thousandths) under 0.3 / 0.6 / 0.8
BucketOf(x) ==
    IF x < 300 THEN "LOW"
    ELSE IF x < 600 THEN "MEDIUM"
    ELSE IF x < 800 THEN "HIGH"
    ELSE "CRITICAL"

\* C20: in every result of calculate_risk_score, on the normal path and on
\* the default-fallback path, the reported risk_level is the bucket of the
\* reported (3-decimal rounded) overall_risk_score under the thresholds
\* 0.3 / 0.6 / 0.8.
C20_LevelMatchesReportedScore ==
    /\ Served("calculate_risk_score", "/api/risk/score/<chain>/<address>") =>
           ret.value.risk_level = BucketOf(ret.value.overall_risk_score)
    /\ (request.route \in ReportRoutes /\ ret.kind = "dict") =>
           ret.value.overall_assessment.risk_level
               = BucketOf(ret.value.overall_assessment.overall_risk_score)

\* the factor line that goes with each indicator of the three detectors
FactorLine(indicator) ==
    CASE indicator = "volume_spike" -> "Unusual volume spikes detected"
      [] indicator = "repetitive_patterns" -> "Repetitive trading patterns"
      [] indicator = "price_manipulation" -> "Potential price manipulation"
      [] indicator = "high_metadata_similarity" -> "High metadata similarity"
      [] indicator = "rapid_minting" -> "Rapid minting activity"
      [] indicator = "suspicious_traits" -> "Suspicious trait distribution"
      [] indicator = "low_creator_activity" -> "Low creator activity"
      [] indicator = "liquidity_concerns" -> "Liquidity concerns"
      [] indicator = "weak_social_signals" -> "Weak social signals"

\* risk_factors and indicators of one detector result agree
FactorsMatchIndicators(result) ==
    /\ \A k \in DOMAIN result.indicators :
           result.indicators[k]
               <=> FactorLine(k) \in Range(result.risk_factors)
    /\ Len(result.risk_factors)
           = Cardinality({ k \in DOMAIN result.indicators :
                             result.indicators[k] })

\* C21: in every non-fallback result of each of the three detectors a
\* factor line is listed in risk_factors exactly when its indicator is true
\* (the literals of the factor helpers match the fraud_patterns thresholds),
\* so the number of risk_factors equals the number of true indicators.
C21_FactorsMatchIndicators ==
    /\ \A w \in WashResults :
           /\ DOMAIN w.result.indicators
                  = {"volume_spike", "repetitive_patterns",
                     "price_manipulation"}
           /\ FactorsMatchIndicators(w.result)
    /\ \A f \in FakeResults :
           /\ DOMAIN f.result.indicators
                  = {"high_metadata_similarity", "rapid_minting",
                     "suspicious_traits"}
           /\ FactorsMatchIndicators(f.result)
    /\ \A r \in RugResults :
           /\ DOMAIN r.result.indicators
                  = {"low_creator_activity", "liquidity_concerns",
                     "weak_social_signals"}
           /\ FactorsMatchIndicators(r.result)

\* some indicators true and one false: two factor lines, in order
C21_Witness ==
    /\ request.route = "detect_wash_trading"
    /\ ~request.fails
    /\ ret.value.indicators
           = [ volume_spike |-> TRUE, repetitive_patterns |-> FALSE,
               price_manipulation |-> TRUE ]
    /\ ret.value.risk_factors
           = << "Unusual volume spikes detected",
                "Potential price manipulation" >>

\* the risk levels a recommendation headline goes with
HeadlineLevels(headline) ==
    CASE headline = "LOW RISK: Appears relatively safe" -> {"LOW"}
      [] headline = "MEDIUM RISK: Proceed with caution" -> {"MEDIUM"}
      [] headline = "HIGH RISK: Avoid investment until further investigation"
             -> {"HIGH", "CRITICAL"}

\* C22: in every non-fallback result of calculate_risk_score the headline of
\* the recommendations agrees with the risk level: 'LOW RISK' only with
\* level LOW, 'MEDIUM RISK' only with MEDIUM, 'HIGH RISK' only with HIGH or
\* CRITICAL.
C22_HeadlineMatchesLevel ==
    \A s \in ScoreResults :
        s.result.risk_level \in HeadlineLevels(s.result.recommendations[1])

=============================================================================
